---- MODULE Spec2Model ----
(***************************************************************************)
(* Model of class Maze (maze.cc): the grid of cells, the recursive         *)
(* back-tracking generator, the BFS path finder and the auto-move          *)
(* animation, driven by arbitrary sequences of calls of the public         *)
(* methods.  Positions are pairs <<x, y>>; cells[<<x, y>>] is the source's *)
(* cells[y][x].                                                            *)
(***************************************************************************)
EXTENDS Integers, Sequences, FiniteSets, TLC

\* The grid is MAZE_WIDTH x MAZE_HEIGHT, both odd (21 x 21 in the source,
\* scaled down here): RoomsX columns of rooms in two rows.
RoomsX == 2

MAZE_WIDTH == 2 * RoomsX + 1

MAZE_HEIGHT == 5

\* The value size() - 1 wraps to when the vector is empty (largest value the
\* model's integers hold; it only has to exceed every index).
SIZE_MAX == 2147483647

WALL == "WALL"

PATH == "PATH"

PLAYER == "PLAYER"

TARGET == "TARGET"

CellType == {WALL, PATH, PLAYER, TARGET}

Pos == (0 .. MAZE_WIDTH - 1) \X (0 .. MAZE_HEIGHT - 1)

Vector2i(x, y) == <<x, y>>

StartPos == Vector2i(1, 1)

EndPos == Vector2i(MAZE_WIDTH - 2, MAZE_HEIGHT - 2)

\* member `directions`, in the order the BFS expands them
directions == << <<1, 0>>, <<-1, 0>>, <<0, 1>>, <<0, -1>> >>

\* local `dirs` of getUnvisitedNeighbors
dirs == << <<2, 0>>, <<-2, 0>>, <<0, 2>>, <<0, -2>> >>

VARIABLES cells, path, movePath, playerPos, targetPos, pathFound, autoMoving,
          currentMoveIndex, last, run, pc, genStack, pushLog, popLog

\* The members of Maze.
session == <<cells, path, movePath, playerPos, targetPos, pathFound,
             autoMoving, currentMoveIndex>>

\* Observers of the call sequence, not members of Maze:
\* last = the last call: its name, its return value (FALSE for void) and
\*        the value autoMoving had when it was made;
\* run  = number of autoMoveStep calls that returned true since the last
\*        prepareAutoMove with no other call in between, or -1.
\* The run of generateMaze when its loop is followed step by step:
\* pc      = "gen" while the loop of generateMaze runs, "idle" between calls;
\* genStack = the local `stack` of generateMaze (top = last element);
\* pushLog = the positions pushed by the current or last such run, in order;
\* popLog  = the positions popped by it, in order.
gen == <<pc, genStack, pushLog, popLog>>

vars == <<cells, path, movePath, playerPos, targetPos, pathFound, autoMoving,
          currentMoveIndex, last, run, pc, genStack, pushLog, popLog>>

----------------------------------------------------------------------------
\* Helpers

Call(name, result) ==
    [call |-> name, ret |-> result, wasAutoMoving |-> autoMoving]

isValidPosition(x, y) == x >= 0 /\ x < MAZE_WIDTH /\ y >= 0 /\ y < MAZE_HEIGHT

SetType(c, p, t) ==
    [q \in Pos |-> IF q = p THEN [type |-> t, visited |-> c[q].visited] ELSE c[q]]

SetVisited(c, p, v) ==
    [q \in Pos |-> IF q = p THEN [type |-> c[q].type, visited |-> v] ELSE c[q]]

\* Every visited flag cleared (the loops of reset and resetVisited).
ClearVisited(c) == [p \in Pos |-> [type |-> c[p].type, visited |-> FALSE]]

----------------------------------------------------------------------------
\* generateMaze

\* Lines 67-78: every cell a fresh unvisited Wall, the two anchors Path,
\* (1,1) visited.
BlankCells ==
    LET c0 == [p \in Pos |-> [type |-> WALL, visited |-> FALSE]]
        c1 == SetType(c0, StartPos, PATH)
        c2 == SetType(c1, EndPos, PATH)
    IN  SetVisited(c2, StartPos, TRUE)

\* Variant of BlankFrom that assigns the type only and keeps each flag.
BlankFromKeepFlags(c) ==
    LET c0 == [p \in DOMAIN c |-> [type |-> WALL, visited |-> c[p].visited]]
        c1 == SetType(c0, StartPos, PATH)
        c2 == SetType(c1, EndPos, PATH)
    IN  SetVisited(c2, StartPos, TRUE)

\* The same lines as they act on the grid c a later call finds: every cell
\* is assigned {x, y, WALL}, and the member left out, visited, takes its
\* default false (line 40) whatever it was.
BlankFrom(c) ==
    LET c0 == [p \in DOMAIN c |-> [type |-> WALL, visited |-> FALSE]]
        c1 == SetType(c0, StartPos, PATH)
        c2 == SetType(c1, EndPos, PATH)
    IN  SetVisited(c2, StartPos, TRUE)

\* Variant of IsUnvisitedRoom whose upper bound on x is one too small.
IsUnvisitedRoomNarrow(c, p) ==
    /\ p[1] >= 1 /\ p[1] < MAZE_WIDTH - 2
    /\ p[2] >= 1 /\ p[2] < MAZE_HEIGHT - 1
    /\ ~c[p].visited

\* Line 318-320: a room inside the border ring that is not yet visited.
IsUnvisitedRoom(c, p) ==
    /\ p[1] >= 1 /\ p[1] < MAZE_WIDTH - 1
    /\ p[2] >= 1 /\ p[2] < MAZE_HEIGHT - 1
    /\ ~c[p].visited

RECURSIVE CollectNeighbors(_, _, _, _, _)
\* The for loop of getUnvisitedNeighbors from direction i on.
CollectNeighbors(c, x, y, i, neighbors) ==
    IF i > Len(dirs) THEN neighbors
    ELSE LET n == Vector2i(x + dirs[i][1], y + dirs[i][2])
         IN  CollectNeighbors(c, x, y, i + 1,
                 IF IsUnvisitedRoom(c, n) THEN Append(neighbors, n) ELSE neighbors)

\* The candidates in the order of `dirs`; the shuffle and the uniform draw
\* that follow make any of them the one chosen.
getUnvisitedNeighbors(c, x, y) == CollectNeighbors(c, x, y, 1, <<>>)

\* Variant of Carve that leaves the midpoint a Wall.
CarveNoMidpoint(c, cur, next) ==
    SetVisited(SetType(c, next, PATH), next, TRUE)

\* Lines 90-99: carve the midpoint and the chosen room, mark it visited.
Carve(c, cur, next) ==
    LET mid == Vector2i((cur[1] + next[1]) \div 2, (cur[2] + next[2]) \div 2)
        c1  == SetType(c, mid, PATH)
        c2  == SetType(c1, next, PATH)
    IN  SetVisited(c2, next, TRUE)

\* Variant of GenIter that carves but does not push the chosen room.
GenIterNoPush(c, stack) ==
    LET cur == stack[Len(stack)]
        nb  == getUnvisitedNeighbors(c, cur[1], cur[2])
    IN  IF nb # <<>>
        THEN {<<Carve(c, cur, nb[i]), stack>> : i \in 1 .. Len(nb)}
        ELSE {<<c, SubSeq(stack, 1, Len(stack) - 1)>>}

\* One iteration of the while loop (lines 80-103) on a non-empty stack (top =
\* last element): the set of <<cells, stack>> it can produce.
GenIter(c, stack) ==
    LET cur == stack[Len(stack)]
        nb  == getUnvisitedNeighbors(c, cur[1], cur[2])
    IN  IF nb # <<>>
        THEN {<<Carve(c, cur, nb[i]), Append(stack, nb[i])>> : i \in 1 .. Len(nb)}
        ELSE {<<c, SubSeq(stack, 1, Len(stack) - 1)>>}

RECURSIVE GenRun(_, _)
\* The loop run to completion: every grid it can end with.
GenRun(c, stack) ==
    IF stack = <<>> THEN {c}
    ELSE UNION {GenRun(s[1], s[2]) : s \in GenIter(c, stack)}

\* generateMaze(): the grids it can leave in `cells`.
generateMaze == GenRun(BlankCells, <<StartPos>>)

----------------------------------------------------------------------------
\* reset

\* Variant of ResetCells that leaves the old Player tag in place.
ResetCellsKeepPlayer(c, tp) ==
    LET c1 == ClearVisited(c)
        c2 == SetType(c1, StartPos, PLAYER)
    IN  SetType(c2, tp, TARGET)

ResetCells(c, tp) ==
    LET c1 == [p \in Pos |->
                 [type |-> IF c[p].type = PLAYER THEN PATH ELSE c[p].type,
                  visited |-> FALSE]]
        c2 == SetType(c1, StartPos, PLAYER)
    IN  SetType(c2, tp, TARGET)

\* Variant of ResetFrom that does not clear autoMoving.
ResetFromKeepAnim(c) ==
    /\ cells' = ResetCells(c, EndPos)
    /\ playerPos' = StartPos
    /\ targetPos' = EndPos
    /\ pathFound' = FALSE
    /\ movePath' = <<>>
    /\ currentMoveIndex' = 0
    /\ UNCHANGED <<path, autoMoving>>

\* Variant of ResetFrom that assigns pathFound from autoMoving.
ResetFromTypo(c) ==
    /\ cells' = ResetCells(c, EndPos)
    /\ playerPos' = StartPos
    /\ targetPos' = EndPos
    /\ pathFound' = autoMoving
    /\ autoMoving' = FALSE
    /\ movePath' = <<>>
    /\ currentMoveIndex' = 0
    /\ UNCHANGED path

\* reset() applied to grid c; the solution path is not touched.
ResetFrom(c) ==
    /\ cells' = ResetCells(c, EndPos)
    /\ playerPos' = StartPos
    /\ targetPos' = EndPos
    /\ pathFound' = FALSE
    /\ autoMoving' = FALSE
    /\ movePath' = <<>>
    /\ currentMoveIndex' = 0
    /\ UNCHANGED path

reset ==
    /\ ResetFrom(cells)
    /\ last' = Call("reset", FALSE)
    /\ run' = -1
    /\ UNCHANGED gen

\* Variant of generateNewMaze that regenerates the grid without reset().
generateNewMazeNoReset ==
    /\ \E g \in generateMaze : cells' = g
    /\ UNCHANGED <<path, movePath, playerPos, targetPos, pathFound, autoMoving,
                   currentMoveIndex>>
    /\ last' = Call("generateNewMaze", FALSE)
    /\ run' = -1
    /\ UNCHANGED gen

generateNewMaze ==
    /\ \E g \in generateMaze : ResetFrom(g)
    /\ last' = Call("generateNewMaze", FALSE)
    /\ run' = -1
    /\ UNCHANGED gen

----------------------------------------------------------------------------
\* movePlayer

\* Variant of movePlayer without the Wall test.
movePlayerNoWallCheck(dx, dy) ==
    /\ UNCHANGED gen
    /\ LET newX == playerPos[1] + dx
           newY == playerPos[2] + dy
           new  == Vector2i(newX, newY)
       IN  IF isValidPosition(newX, newY)
           THEN /\ cells' = SetType(SetType(cells, playerPos, PATH), new, PLAYER)
                /\ playerPos' = new
                /\ last' = Call("movePlayer", TRUE)
                /\ run' = -1
                /\ UNCHANGED <<path, movePath, targetPos, pathFound, autoMoving,
                               currentMoveIndex>>
           ELSE /\ last' = Call("movePlayer", FALSE)
                /\ run' = -1
                /\ UNCHANGED session

movePlayer(dx, dy) ==
    /\ UNCHANGED gen
    /\ LET newX == playerPos[1] + dx
           newY == playerPos[2] + dy
           new  == Vector2i(newX, newY)
       IN  IF isValidPosition(newX, newY) /\ cells[new].type # WALL
           THEN /\ cells' = SetType(SetType(cells, playerPos, PATH), new, PLAYER)
                /\ playerPos' = new
                /\ last' = Call("movePlayer", TRUE)
                /\ run' = -1
                /\ UNCHANGED <<path, movePath, targetPos, pathFound, autoMoving,
                               currentMoveIndex>>
           ELSE /\ last' = Call("movePlayer", FALSE)
                /\ run' = -1
                /\ UNCHANGED session

----------------------------------------------------------------------------
\* findPathBFS

\* The key of parentMap: newY * MAZE_WIDTH + newX.
Key(p) == p[2] * MAZE_WIDTH + p[1]

\* parentMap[k] = v
PutParent(parentMap, k, v) ==
    (k :> v) @@ parentMap

\* parentMap[k] read through operator[]: a missing key reads as Vector2i().
GetParent(parentMap, k) ==
    IF k \in DOMAIN parentMap THEN parentMap[k] ELSE Vector2i(0, 0)

RECURSIVE ExpandDirsPathOnly(_, _, _)
\* Variant of ExpandDirs that enters only cells tagged Path.
ExpandDirsPathOnly(s, current, i) ==
    IF i > Len(directions) THEN s
    ELSE LET newX == current[1] + directions[i][1]
             newY == current[2] + directions[i][2]
             new  == Vector2i(newX, newY)
         IN  IF /\ isValidPosition(newX, newY)
                /\ ~s.cells[new].visited
                /\ s.cells[new].type = PATH
             THEN ExpandDirsPathOnly(
                      [cells     |-> SetVisited(s.cells, new, TRUE),
                       queue     |-> Append(s.queue, new),
                       parentMap |-> PutParent(s.parentMap, Key(new), current)],
                      current, i + 1)
             ELSE ExpandDirsPathOnly(s, current, i + 1)

RECURSIVE ExpandDirs(_, _, _)
\* The for loop over `directions` (lines 165-175) from direction i on, with
\* s = [cells, queue, parentMap]: s after the loop.
ExpandDirs(s, current, i) ==
    IF i > Len(directions) THEN s
    ELSE LET newX == current[1] + directions[i][1]
             newY == current[2] + directions[i][2]
             new  == Vector2i(newX, newY)
         IN  IF /\ isValidPosition(newX, newY)
                /\ ~s.cells[new].visited
                /\ s.cells[new].type # WALL
             THEN ExpandDirs([cells     |-> SetVisited(s.cells, new, TRUE),
                              queue     |-> Append(s.queue, new),
                              parentMap |-> PutParent(s.parentMap, Key(new), current)],
                             current, i + 1)
             ELSE ExpandDirs(s, current, i + 1)

RECURSIVE BFSLoop(_, _)
\* The while loop (lines 155-176) with s = [cells, queue, parentMap]: the
\* flags it leaves, whether the target was dequeued, and the parent map at
\* that moment.
BFSLoop(s, tp) ==
    IF s.queue = <<>>
    THEN [cells |-> s.cells, found |-> FALSE, parentMap |-> s.parentMap]
    ELSE IF Head(s.queue) = tp
         THEN [cells |-> s.cells, found |-> TRUE, parentMap |-> s.parentMap]
         ELSE BFSLoop(ExpandDirs([s EXCEPT !.queue = Tail(s.queue)],
                                 Head(s.queue), 1), tp)

Reverse(s) == [i \in 1 .. Len(s) |-> s[Len(s) + 1 - i]]

RECURSIVE WalkParents(_, _, _, _)
\* The while loop of reconstructPath.
WalkParents(parentMap, current, pp, acc) ==
    IF current = pp THEN acc
    ELSE WalkParents(parentMap, GetParent(parentMap, Key(current)), pp,
                     Append(acc, current))

\* Variant of reconstructPath without the final reverse.
reconstructPathNoReverse(parentMap, pp, tp) ==
    WalkParents(parentMap, tp, pp, <<>>)

\* reconstructPath appends to the (just cleared) path and reverses it.
reconstructPath(parentMap, pp, tp) ==
    Reverse(WalkParents(parentMap, tp, pp, <<>>))

\* Variant of BFSOutcome that reports a path only when it is non-empty.
BFSOutcomeNonEmpty(r, pp, tp) ==
    [cells     |-> r.cells,
     pathFound |-> r.found /\ pp # tp,
     path      |-> IF r.found THEN reconstructPath(r.parentMap, pp, tp)
                   ELSE <<>>]

\* What findPathBFS leaves, given the outcome r of its loop.
BFSOutcome(r, pp, tp) ==
    [cells     |-> r.cells,
     pathFound |-> r.found,
     path      |-> IF r.found THEN reconstructPath(r.parentMap, pp, tp)
                   ELSE <<>>]

\* Lines 148-153: the state in which the while loop is entered.
BFSStart(c, pp) ==
    [cells     |-> SetVisited(ClearVisited(c), pp, TRUE),
     queue     |-> <<pp>>,
     parentMap |-> <<>>]

\* findPathBFS() on grid c with the player at pp and the target at tp:
\* the grid (flags), path and pathFound it leaves.
BFSResult(c, pp, tp) == BFSOutcome(BFSLoop(BFSStart(c, pp), tp), pp, tp)

\* Variant of findPathBFS whose resetVisited clears the flags only: the old
\* path and pathFound stay, and reconstructPath appends to the old path.
findPathBFSKeepOld ==
    \E r \in {BFSResult(cells, playerPos, targetPos)} :
        /\ cells' = r.cells
        /\ path' = IF r.pathFound THEN r.path \o Reverse(path) ELSE path
        /\ pathFound' = (pathFound \/ r.pathFound)
        /\ last' = Call("findPathBFS", FALSE)
        /\ run' = -1
        /\ UNCHANGED <<movePath, playerPos, targetPos, autoMoving, currentMoveIndex>>
        /\ UNCHANGED gen

findPathBFS ==
    \E r \in {BFSResult(cells, playerPos, targetPos)} :
        /\ cells' = r.cells
        /\ path' = r.path
        /\ pathFound' = r.pathFound
        /\ last' = Call("findPathBFS", FALSE)
        /\ run' = -1
        /\ UNCHANGED gen
        /\ UNCHANGED <<movePath, playerPos, targetPos, autoMoving,
                       currentMoveIndex>>

----------------------------------------------------------------------------
\* prepareAutoMove, autoMoveStep

\* Variant of prepareAutoMove that does not rewind the index.
prepareAutoMoveKeepIndex ==
    \E r \in {BFSResult(cells, playerPos, targetPos)} :
        /\ cells' = r.cells
        /\ path' = r.path
        /\ pathFound' = r.pathFound
        /\ IF r.pathFound
           THEN /\ autoMoving' = TRUE
                /\ movePath' = <<playerPos>> \o r.path
                /\ run' = 0
                /\ UNCHANGED currentMoveIndex
           ELSE /\ UNCHANGED <<autoMoving, currentMoveIndex, movePath>>
                /\ run' = -1
        /\ last' = Call("prepareAutoMove", FALSE)
        /\ UNCHANGED <<playerPos, targetPos>>
        /\ UNCHANGED gen

prepareAutoMove ==
    \E r \in {BFSResult(cells, playerPos, targetPos)} :
        /\ cells' = r.cells
        /\ path' = r.path
        /\ pathFound' = r.pathFound
        /\ IF r.pathFound
           THEN /\ autoMoving' = TRUE
                /\ currentMoveIndex' = 0
                /\ movePath' = <<playerPos>> \o r.path
                /\ run' = 0
           ELSE /\ UNCHANGED <<autoMoving, currentMoveIndex, movePath>>
                /\ run' = -1
        /\ last' = Call("prepareAutoMove", FALSE)
        /\ UNCHANGED <<playerPos, targetPos>>
        /\ UNCHANGED gen

\* movePath.size() - 1 in size_t arithmetic.
SizeMinusOne(s) == IF Len(s) = 0 THEN SIZE_MAX ELSE Len(s) - 1

\* Variant of autoMoveStep whose early exit leaves autoMoving as it is.
autoMoveStepKeepFlag ==
    /\ UNCHANGED gen
    /\ IF ~autoMoving \/ currentMoveIndex >= SizeMinusOne(movePath)
       THEN /\ last' = Call("autoMoveStep", FALSE)
            /\ UNCHANGED <<cells, path, movePath, playerPos, targetPos, pathFound,
                           autoMoving, currentMoveIndex, run>>
       ELSE LET nextPos == movePath[currentMoveIndex + 2]
            IN  /\ currentMoveIndex' = currentMoveIndex + 1
                /\ cells' = SetType(SetType(cells, playerPos, PATH), nextPos, PLAYER)
                /\ playerPos' = nextPos
                /\ autoMoving' = IF nextPos = targetPos THEN FALSE ELSE autoMoving
                /\ last' = Call("autoMoveStep", TRUE)
                /\ run' = IF run >= 0 THEN run + 1 ELSE -1
                /\ UNCHANGED <<path, movePath, targetPos, pathFound>>

\* Variant of autoMoveStep whose early exit also rewinds the index.
autoMoveStepRewind ==
    /\ UNCHANGED gen
    /\ IF ~autoMoving \/ currentMoveIndex >= SizeMinusOne(movePath)
       THEN /\ autoMoving' = FALSE
            /\ currentMoveIndex' = 0
            /\ last' = Call("autoMoveStep", FALSE)
            /\ UNCHANGED <<cells, path, movePath, playerPos, targetPos, pathFound,
                           run>>
       ELSE LET nextPos == movePath[currentMoveIndex + 2]
            IN  /\ currentMoveIndex' = currentMoveIndex + 1
                /\ cells' = SetType(SetType(cells, playerPos, PATH), nextPos, PLAYER)
                /\ playerPos' = nextPos
                /\ autoMoving' = IF nextPos = targetPos THEN FALSE ELSE autoMoving
                /\ last' = Call("autoMoveStep", TRUE)
                /\ run' = IF run >= 0 THEN run + 1 ELSE -1
                /\ UNCHANGED <<path, movePath, targetPos, pathFound>>

\* Variant of autoMoveStep that keeps autoMoving set on reaching the target.
autoMoveStepNoStop ==
    /\ UNCHANGED gen
    /\ IF ~autoMoving \/ currentMoveIndex >= SizeMinusOne(movePath)
       THEN /\ autoMoving' = FALSE
            /\ last' = Call("autoMoveStep", FALSE)
            /\ UNCHANGED <<cells, path, movePath, playerPos, targetPos, pathFound,
                           currentMoveIndex, run>>
       ELSE LET nextPos == movePath[currentMoveIndex + 2]
            IN  /\ currentMoveIndex' = currentMoveIndex + 1
                /\ cells' = SetType(SetType(cells, playerPos, PATH), nextPos, PLAYER)
                /\ playerPos' = nextPos
                /\ last' = Call("autoMoveStep", TRUE)
                /\ run' = IF run >= 0 THEN run + 1 ELSE -1
                /\ UNCHANGED <<path, movePath, targetPos, pathFound, autoMoving>>

autoMoveStep ==
    /\ UNCHANGED gen
    /\ IF ~autoMoving \/ currentMoveIndex >= SizeMinusOne(movePath)
       THEN /\ autoMoving' = FALSE
            /\ last' = Call("autoMoveStep", FALSE)
            /\ UNCHANGED <<cells, path, movePath, playerPos, targetPos, pathFound,
                           currentMoveIndex, run>>
       ELSE LET nextPos == movePath[currentMoveIndex + 2]
            IN  /\ currentMoveIndex' = currentMoveIndex + 1
                /\ cells' = SetType(SetType(cells, playerPos, PATH), nextPos, PLAYER)
                /\ playerPos' = nextPos
                /\ autoMoving' = IF nextPos = targetPos THEN FALSE ELSE autoMoving
                /\ last' = Call("autoMoveStep", TRUE)
                /\ run' = IF run >= 0 THEN run + 1 ELSE -1
                /\ UNCHANGED <<path, movePath, targetPos, pathFound>>

----------------------------------------------------------------------------
\* Maze(): generateMaze(); reset(); with the members' initial values.
Init ==
    /\ \E g \in generateMaze : cells = ResetCells(g, EndPos)
    /\ playerPos = StartPos
    /\ targetPos = EndPos
    /\ path = <<>>
    /\ movePath = <<>>
    /\ pathFound = FALSE
    /\ autoMoving = FALSE
    /\ currentMoveIndex = 0
    /\ last = [call |-> "Maze", ret |-> FALSE, wasAutoMoving |-> FALSE]
    /\ run = -1
    /\ pc = "idle"
    /\ genStack = <<>>
    /\ pushLog = <<>>
    /\ popLog = <<>>

Next ==
    \/ \E i \in 1 .. 4 : movePlayer(directions[i][1], directions[i][2])
    \/ findPathBFS
    \/ prepareAutoMove
    \/ autoMoveStep
    \/ reset
    \/ generateNewMaze

Spec == Init /\ [][Next]_vars

----------------------------------------------------------------------------
\* generateNewMaze followed through the iterations of generateMaze's loop,
\* between the operations that move the Player and set the visited flags.

\* generateNewMaze() is entered: lines 67-78.
genStart ==
    /\ pc = "idle"
    /\ cells' = BlankFrom(cells)
    /\ genStack' = <<StartPos>>
    /\ pushLog' = <<StartPos>>
    /\ popLog' = <<>>
    /\ pc' = "gen"
    /\ last' = Call("generateMaze", FALSE)
    /\ run' = -1
    /\ UNCHANGED <<path, movePath, playerPos, targetPos, pathFound, autoMoving,
                   currentMoveIndex>>

\* One iteration of the while loop, lines 80-103.
genStep ==
    /\ pc = "gen"
    /\ genStack # <<>>
    /\ \E s \in GenIter(cells, genStack) :
           /\ cells' = s[1]
           /\ genStack' = s[2]
           /\ IF Len(s[2]) > Len(genStack)
              THEN /\ pushLog' = Append(pushLog, s[2][Len(s[2])])
                   /\ UNCHANGED popLog
              ELSE /\ popLog' = Append(popLog, genStack[Len(genStack)])
                   /\ UNCHANGED pushLog
    /\ UNCHANGED <<path, movePath, playerPos, targetPos, pathFound, autoMoving,
                   currentMoveIndex, last, run, pc>>

\* The loop is left with the stack empty and generateNewMaze goes on to
\* reset() (line 129).
genFinish ==
    /\ pc = "gen"
    /\ genStack = <<>>
    /\ ResetFrom(cells)
    /\ last' = Call("generateNewMaze", FALSE)
    /\ run' = -1
    /\ pc' = "idle"
    /\ pushLog' = <<>>
    /\ popLog' = <<>>
    /\ UNCHANGED genStack

NextGen ==
    \/ genStart
    \/ genStep
    \/ genFinish
    \/ pc = "idle" /\ \E i \in 1 .. 4 : movePlayer(directions[i][1], directions[i][2])
    \/ pc = "idle" /\ findPathBFS
    \/ pc = "idle" /\ reset

\* generateMaze runs inside one call of generateNewMaze, on the one thread
\* of the program: once entered, its loop goes on until it is left.
SpecGen == Init /\ [][NextGen]_vars /\ WF_vars(genStep) /\ WF_vars(genFinish)

----------------------------------------------------------------------------
\* findPathBFS on grids handed to it directly: a generated maze in which
\* some of the carved passages have been walled up again, so that the
\* Target may be out of reach, with a found path already stored.

\* Grid g with the cells of W turned into Walls.
WalledUp(g, W) ==
    [p \in Pos |-> IF p \in W THEN [type |-> WALL, visited |-> g[p].visited]
                   ELSE g[p]]

\* The passages of grid g: its non-Wall cells with an even coordinate.
Passages(g) == {p \in Pos : g[p].type # WALL /\ (p[1] % 2 = 0 \/ p[2] % 2 = 0)}

InitBFS ==
    /\ \E g \in generateMaze : \E W \in SUBSET Passages(g) :
           cells = ResetCells(WalledUp(g, W), EndPos)
    /\ playerPos = StartPos
    /\ targetPos = EndPos
    /\ path = <<EndPos>>
    /\ pathFound = TRUE
    /\ movePath = <<>>
    /\ autoMoving = FALSE
    /\ currentMoveIndex = 0
    /\ last = [call |-> "Maze", ret |-> FALSE, wasAutoMoving |-> FALSE]
    /\ run = -1
    /\ pc = "idle"
    /\ genStack = <<>>
    /\ pushLog = <<>>
    /\ popLog = <<>>

NextBFS ==
    \/ findPathBFS
    \/ prepareAutoMove
    \/ \E i \in 1 .. 4 : movePlayer(directions[i][1], directions[i][2])

SpecBFS == InitBFS /\ [][NextBFS]_vars

----------------------------------------------------------------------------
\* The GLUT callbacks: the session as the key events and timer ticks of the
\* running program drive it.

\* Line 332, in milliseconds.
autoMoveInterval == 20

\* Line 393: the timer callback re-arms itself every 16 ms.
TimerPeriod == 16

\* The time a tick can find elapsed since lastAutoMoveTime: one period (the
\* step is not due yet) or two (it is due). The clock is an input.
Elapsed == {TimerPeriod, 2 * TimerPeriod}

Keys == {" ", "r", "n", "a"}

ArrowKeys == {"GLUT_KEY_UP", "GLUT_KEY_DOWN", "GLUT_KEY_LEFT", "GLUT_KEY_RIGHT"}

\* keyboard(): lines 340-368 ('R', 'N', 'A' act as their lower case; ESC
\* leaves the program).
keyboard(key) ==
    CASE key = " " -> findPathBFS
      [] key = "r" -> reset
      [] key = "n" -> generateNewMaze
      [] key = "a" -> prepareAutoMove

\* Variant of specialKeys without the isAutoMoving() test.
specialKeysNoGuard(key) ==
    CASE key = "GLUT_KEY_UP"    -> movePlayer(0, -1)
      [] key = "GLUT_KEY_DOWN"  -> movePlayer(0, 1)
      [] key = "GLUT_KEY_LEFT"  -> movePlayer(-1, 0)
      [] key = "GLUT_KEY_RIGHT" -> movePlayer(1, 0)

\* specialKeys(): lines 370-380. A key that arrives while isAutoMoving()
\* returns at once; the observer records that it was delivered.
specialKeys(key) ==
    IF autoMoving
    THEN /\ last' = Call("specialKeys", FALSE)
         /\ UNCHANGED <<session, run, gen>>
    ELSE CASE key = "GLUT_KEY_UP"    -> movePlayer(0, -1)
           [] key = "GLUT_KEY_DOWN"  -> movePlayer(0, 1)
           [] key = "GLUT_KEY_LEFT"  -> movePlayer(-1, 0)
           [] key = "GLUT_KEY_RIGHT" -> movePlayer(1, 0)

\* timer(): lines 382-394. A tick that finds no animation running, or the
\* interval not yet elapsed, changes nothing.
timer(elapsed) ==
    IF autoMoving /\ elapsed >= autoMoveInterval
    THEN autoMoveStep
    ELSE UNCHANGED vars

NextUI ==
    \/ \E key \in Keys : keyboard(key)
    \/ \E key \in ArrowKeys : specialKeys(key)
    \/ \E elapsed \in Elapsed : timer(elapsed)

SpecUI == Init /\ [][NextUI]_vars

\* The ticks that find the interval elapsed.
TimerDue == \E elapsed \in Elapsed : elapsed >= autoMoveInterval /\ timer(elapsed)

\* glutTimerFunc re-arms the timer on every tick (line 393), so while an
\* animation runs a tick that finds the interval elapsed keeps coming.
SpecUIFair == SpecUI /\ WF_vars(TimerDue)

----------------------------------------------------------------------------
\* Vocabulary of the properties (defined without the code's algorithms)

Adjacent(p, q) ==
    \/ p[1] = q[1] /\ (p[2] = q[2] + 1 \/ q[2] = p[2] + 1)
    \/ p[2] = q[2] /\ (p[1] = q[1] + 1 \/ q[1] = p[1] + 1)

Open(c) == {p \in Pos : c[p].type # WALL}

Tagged(c, t) == {p \in Pos : c[p].type = t}

RECURSIVE Grow(_, _)
\* The cells of Open(c) connected to S by 4-adjacent steps inside Open(c).
Grow(c, S) ==
    LET N == S \cup {q \in Open(c) : \E p \in S : Adjacent(p, q)}
    IN  IF N = S THEN S ELSE Grow(c, N)

RECURSIVE Layers(_, _, _, _, _)
\* The number of edges of a shortest 4-connected route inside Open(c) from
\* the cells of `frontier` (at distance d) to goal; -1 if there is none.
Layers(c, frontier, seen, d, goal) ==
    IF goal \in frontier THEN d
    ELSE IF frontier = {} THEN -1
    ELSE LET nxt == {q \in Open(c) \ seen : \E p \in frontier : Adjacent(p, q)}
         IN  Layers(c, nxt, seen \cup nxt, d + 1, goal)

Distance(c, from, to) == Layers(c, {from}, {from}, 0, to)

\* The room lattice: the cells with both coordinates odd.
Rooms == {p \in Pos : p[1] % 2 = 1 /\ p[2] % 2 = 1}

\* The two rooms a cell lies between, if it is the midpoint of two rooms at
\* distance 2; {} otherwise.
Ends(m) ==
    IF m[1] % 2 = 0 /\ m[2] % 2 = 1
    THEN {r \in Rooms : r[2] = m[2] /\ (r[1] = m[1] - 1 \/ r[1] = m[1] + 1)}
    ELSE IF m[1] % 2 = 1 /\ m[2] % 2 = 0
    THEN {r \in Rooms : r[1] = m[1] /\ (r[2] = m[2] - 1 \/ r[2] = m[2] + 1)}
    ELSE {}

\* The carved cells that are not rooms.
Carved(c) == Open(c) \ Rooms

RECURSIVE GrowRooms(_, _)
\* The rooms joined to S by carved midpoints.
GrowRooms(c, S) ==
    LET N == S \cup {r \in Rooms : \E m \in Carved(c) :
                         r \in Ends(m) /\ Ends(m) \cap S # {}}
    IN  IF N = S THEN S ELSE GrowRooms(c, N)

\* The state is the one generateMaze(); reset() leaves.
FreshMaze == last.call \in {"Maze", "generateNewMaze"}

----------------------------------------------------------------------------
\* C1: in every state after construction exactly one cell is tagged Player
\* and exactly one cell is tagged Target.
C1_OnePlayerOneTarget ==
    /\ Cardinality(Tagged(cells, PLAYER)) = 1
    /\ Cardinality(Tagged(cells, TARGET)) = 1

\* C2: after generateMaze followed by reset, whatever neighbours were drawn,
\* every non-Wall cell is reachable from (1,1) through 4-connected non-Wall
\* cells; in particular the Target cell (W-2,H-2) is.
C2_FreshMazeConnected ==
    FreshMaze =>
        /\ Grow(cells, {StartPos}) = Open(cells)
        /\ StartPos \in Open(cells)
        /\ EndPos \in Grow(cells, {StartPos})
        /\ cells[EndPos].type = TARGET

\* A maze generated after the session has been used (a stale path is kept).
C2_Witness ==
    /\ last.call = "generateNewMaze"
    /\ path # <<>>
    /\ Cardinality(Open(cells)) = 2 * Cardinality(Rooms) - 1

\* C3: generateMaze carves exactly (rooms - 1) midpoints, each between two
\* rooms at distance 2, the rooms and carved midpoints form a spanning tree
\* of the room lattice, and every other cell with an even coordinate is Wall.
C3_SpanningTree ==
    FreshMaze =>
        /\ Rooms \subseteq Open(cells)
        /\ \A m \in Carved(cells) : Cardinality(Ends(m)) = 2
        /\ Cardinality(Carved(cells)) = Cardinality(Rooms) - 1
        /\ GrowRooms(cells, {StartPos}) = Rooms
        /\ \A p \in Pos \ Rooms : p \notin Carved(cells) => cells[p].type = WALL

\* A generated maze in which a room has been left by back-tracking or the
\* walk turned: some carved midpoint is vertical and some horizontal.
C3_Witness ==
    /\ FreshMaze
    /\ \E m \in Carved(cells) : m[1] % 2 = 0
    /\ \E m \in Carved(cells) : m[2] % 2 = 0

\* C4: movePlayer(dx,dy) returns true iff the cell at Player+(dx,dy) is in
\* bounds and not Wall; on false nothing of the session changes; on true the
\* old Player cell becomes Path, the destination becomes Player, the Player
\* position is the destination and nothing else changes.
C4_MovePlayerContract ==
    [][\A i \in 1 .. Len(directions) :
        LET dest == <<playerPos[1] + directions[i][1],
                      playerPos[2] + directions[i][2]>>
            ok   == dest \in Pos /\ cells[dest].type # WALL
        IN  (/\ last'.call = "movePlayer"
             /\ movePlayer(directions[i][1], directions[i][2])) =>
              /\ last'.call = "movePlayer"
              /\ last'.ret = ok
              /\ ~ok => UNCHANGED session
              /\ ok => /\ cells'[playerPos].type = PATH
                       /\ cells'[dest].type = PLAYER
                       /\ playerPos' = dest
                       /\ \A q \in Pos \ {playerPos, dest} : cells'[q] = cells[q]
                       /\ \A q \in Pos : cells'[q].visited = cells[q].visited
                       /\ UNCHANGED <<targetPos, path, movePath, pathFound,
                                      autoMoving, currentMoveIndex>>
      ]_vars

\* A move into a Wall was rejected while a path and an animation were stored.
C4_Witness ==
    /\ last.call = "movePlayer"
    /\ ~last.ret
    /\ pathFound
    /\ autoMoving

\* The grid of the scenario: 5 x 5, (1,1)-(1,3)-(3,3) carved, (2,1) a Wall,
\* the Player at (1,1).
Scenario5x5 ==
    /\ MAZE_WIDTH = 5 /\ MAZE_HEIGHT = 5
    /\ playerPos = <<1, 1>> /\ targetPos = <<3, 3>>
    /\ {<<1, 2>>, <<1, 3>>, <<2, 3>>, <<3, 3>>} \subseteq Open(cells)
    /\ cells[<<2, 1>>].type = WALL

\* The state is the one findPathBFS leaves (called directly or by
\* prepareAutoMove).
AfterBFS == last.call \in {"findPathBFS", "prepareAutoMove"}

\* C5: when findPathBFS sets pathFound, the stored path excludes the Player's
\* cell, ends at the Target position, holds only non-Wall cells, is a chain of
\* 4-adjacent cells starting next to the Player, and has the length of a
\* shortest route; in the 5 x 5 scenario it is (1,2),(1,3),(2,3),(3,3).
C5_ShortestPath ==
    (AfterBFS /\ pathFound) =>
        LET route == <<playerPos>> \o path
        IN  /\ \A i \in 1 .. Len(path) : path[i] # playerPos
            /\ route[Len(route)] = targetPos
            /\ \A i \in 1 .. Len(path) : path[i] \in Open(cells)
            /\ \A i \in 1 .. Len(route) - 1 : Adjacent(route[i], route[i + 1])
            /\ Len(path) = Distance(cells, playerPos, targetPos)
            /\ Scenario5x5 => path = << <<1, 2>>, <<1, 3>>, <<2, 3>>, <<3, 3>> >>

\* A search from (1,1) with (2,1) a Wall, so that the route turns a corner.
C5_Witness ==
    /\ last.call = "findPathBFS"
    /\ pathFound
    /\ playerPos = StartPos
    /\ cells[<<2, 1>>].type = WALL
    /\ Len(path) >= 4

\* C6: when the Player's position equals the Target position, findPathBFS
\* yields pathFound = true and an empty path.
C6_PlayerOnTarget ==
    (AfterBFS /\ playerPos = targetPos) => (pathFound /\ path = <<>>)

\* A search made on the Target after an auto-move that ran to its end.
C6_Witness ==
    /\ last.call = "findPathBFS"
    /\ playerPos = targetPos
    /\ currentMoveIndex > 0
    /\ currentMoveIndex = Len(movePath) - 1
    /\ movePath[Len(movePath)] = targetPos

\* C7 as stated: after prepareAutoMove, repeated autoMoveStep calls perform
\* exactly len(path) steps that return true, and once that many have been
\* performed the Player is at the Target and autoMoving is false, also when
\* len(path) = 0.
C7_Original ==
    run >= 0 =>
        /\ run <= Len(path)
        /\ (last.call = "autoMoveStep" /\ ~last.ret) => run = Len(path)
        /\ run = Len(path) => (playerPos = targetPos /\ ~autoMoving)

\* C7 amended: exactly len(path) steps return true and the Player is then at
\* the Target; autoMoving is then false if len(path) >= 1, while for
\* len(path) = 0 it is true after prepareAutoMove and is cleared by the next
\* autoMoveStep, which returns false.
C7_AutoMoveRun ==
    run >= 0 =>
        /\ run <= Len(path)
        /\ Len(movePath) = Len(path) + 1
        /\ currentMoveIndex = run
        /\ playerPos = movePath[run + 1]
        /\ run < Len(path) => autoMoving
        /\ (last.call = "autoMoveStep" /\ ~last.ret) =>
               (run = Len(path) /\ ~autoMoving)
        /\ run = Len(path) =>
               /\ playerPos = targetPos
               /\ Len(path) >= 1 => ~autoMoving
               /\ (Len(path) = 0 /\ last.call = "prepareAutoMove") => autoMoving

\* The last step of an animation of more than one step has just been made.
C7_Witness ==
    /\ run > 1
    /\ run = Len(path)
    /\ last.call = "autoMoveStep"
    /\ last.ret

\* C8: reset() and generateNewMaze() called while autoMoving leave
\* autoMoving = false, the index 0 and the animation path empty, and an
\* autoMoveStep that follows returns false and does not move the Player.
C8_CancelOnReset ==
    [][/\ (last'.call \in {"reset", "generateNewMaze"} /\ last'.wasAutoMoving) =>
            (~autoMoving' /\ currentMoveIndex' = 0 /\ movePath' = <<>>)
       /\ (/\ last.call \in {"reset", "generateNewMaze"}
           /\ last.wasAutoMoving
           /\ last'.call = "autoMoveStep") =>
            (~last'.ret /\ playerPos' = playerPos /\ cells' = cells)
      ]_vars

\* reset() has just been called during an animation.
C8_Witness ==
    /\ last.call = "reset"
    /\ last.wasAutoMoving
    /\ path # <<>>

\* C9 as stated: after reset() every visited flag is false, the Player tag is
\* on (1,1) only, the Target tag on (W-2,H-2), the positions are those,
\* pathFound is false, and the solution path and the animation path are
\* empty.
C9_Original ==
    last.call = "reset" =>
        /\ \A p \in Pos : ~cells[p].visited
        /\ Tagged(cells, PLAYER) = {StartPos}
        /\ cells[EndPos].type = TARGET
        /\ playerPos = StartPos /\ targetPos = EndPos
        /\ ~pathFound
        /\ path = <<>>
        /\ movePath = <<>>

\* C9 amended: as stated, except that the stored solution path is not
\* cleared: reset() leaves it as it was; autoMoving is false, the index 0 and
\* the animation path empty.
C9_ResetPostcondition ==
    [][last'.call = "reset" =>
          /\ \A p \in Pos : ~cells'[p].visited
          /\ Tagged(cells', PLAYER) = {StartPos}
          /\ cells'[EndPos].type = TARGET
          /\ playerPos' = StartPos /\ targetPos' = EndPos
          /\ ~pathFound'
          /\ ~autoMoving' /\ currentMoveIndex' = 0 /\ movePath' = <<>>
          /\ path' = path
      ]_vars

\* reset() has been called after a search: the path the search stored
\* survives it.
C9_Witness ==
    /\ last.call = "reset"
    /\ path # <<>>
    /\ ~pathFound
    /\ ~last.wasAutoMoving

\* C10: reset() is idempotent: a reset() that follows a reset() changes no
\* member of the session.
C10_ResetIdempotent ==
    [][(last.call = "reset" /\ last'.call = "reset") => UNCHANGED session]_vars

\* The state a first reset() leaves, from which the second one is made.
C10_Witness ==
    /\ last.call = "reset"
    /\ playerPos = StartPos
    /\ movePath = <<>>
    /\ Cardinality(Tagged(cells, TARGET)) = 1

----------------------------------------------------------------------------
\* C11: the search never comes back without a path: whatever sequence of
\* movePlayer, findPathBFS, prepareAutoMove, autoMoveStep, reset and
\* generateNewMaze calls has been made, a findPathBFS (alone or inside
\* prepareAutoMove) ends with pathFound = true, also when the Target tag
\* has been overwritten by the Player.
C11_PathAlwaysFound == AfterBFS => pathFound

\* A search made after the Player has stepped on the Target cell and left
\* it again: no cell carries the Target tag, the Player is elsewhere, and
\* the search still found its way to the target position.
C11_Witness ==
    /\ last.call = "findPathBFS"
    /\ Tagged(cells, TARGET) = {}
    /\ playerPos # targetPos
    /\ pathFound
    /\ path # <<>>

\* The states in which autoMoveStep takes its early exit: autoMoving is
\* false, or the index is already the last index of the animation path.
AtEarlyExit == ~autoMoving \/ currentMoveIndex >= Len(movePath) - 1

\* C14 as stated: an autoMoveStep called when autoMoving is false or the
\* index is already the last index returns false and changes nothing in the
\* session: grid, Player position, autoMoving, index, animation path,
\* solution Path and pathFound are all as before.
C14_Original ==
    [][(AtEarlyExit /\ last'.call = "autoMoveStep") =>
          (~last'.ret /\ UNCHANGED session)]_vars

\* C14 amended: such an autoMoveStep returns false and leaves autoMoving
\* false; grid, Player and Target position, index, animation path, solution
\* Path and pathFound are as before. It changes nothing at all when
\* autoMoving was false, and clears autoMoving when it was true.
C14_EarlyExit ==
    [][(AtEarlyExit /\ last'.call = "autoMoveStep") =>
          /\ ~last'.ret
          /\ ~autoMoving'
          /\ UNCHANGED <<cells, path, movePath, playerPos, targetPos, pathFound,
                         currentMoveIndex>>
      ]_vars

\* autoMoveStep has just taken its early exit with autoMoving set: the index
\* was at the last element of the animation path.
C14_Witness ==
    /\ last.call = "autoMoveStep"
    /\ ~last.ret
    /\ last.wasAutoMoving
    /\ ~autoMoving
    /\ currentMoveIndex = Len(movePath) - 1

\* The outer ring of the grid.
Border ==
    {p \in Pos : p[1] \in {0, MAZE_WIDTH - 1} \/ p[2] \in {0, MAZE_HEIGHT - 1}}

\* The set of Wall cells of grid c.
Walls(c) == {p \in Pos : c[p].type = WALL}

\* C20: the wall layout changes only on regeneration: a step of movePlayer,
\* findPathBFS, prepareAutoMove, autoMoveStep or reset turns no Wall into a
\* non-Wall and no non-Wall into a Wall; in every reachable state every cell
\* of the outer border is Wall, and the Player position lies in the interior
\* [1, W-2] x [1, H-2] on a cell that is not Wall.
C20_WallLayout ==
    /\ [](/\ Border \subseteq Walls(cells)
          /\ playerPos[1] \in 1 .. MAZE_WIDTH - 2
          /\ playerPos[2] \in 1 .. MAZE_HEIGHT - 2
          /\ playerPos \notin Walls(cells))
    /\ [][last'.call # "generateNewMaze" => Walls(cells') = Walls(cells)]_vars

\* A movePlayer has just been refused next to the border, away from the
\* start: the Player stands beside a border Wall it could not enter.
C20_Witness ==
    /\ last.call = "movePlayer"
    /\ ~last.ret
    /\ playerPos # StartPos
    /\ \E b \in Border : Adjacent(playerPos, b)

----------------------------------------------------------------------------
\* C15: manual movement is rejected during an active auto-move: under every
\* interleaving of key events and timer ticks, a directional key delivered
\* while autoMoving is true changes neither the Player position nor any cell
\* kind, and while autoMoving is true the Player position is changed only by
\* autoMoveStep, or set to (1,1) by reset or generateNewMaze.
C15_NoManualMoveDuringAutoMove ==
    [][autoMoving =>
          /\ last'.call # "movePlayer"
          /\ last'.call = "specialKeys" =>
                 /\ playerPos' = playerPos
                 /\ \A p \in Pos : cells'[p].type = cells[p].type
          /\ playerPos' # playerPos =>
                 \/ last'.call = "autoMoveStep"
                 \/ last'.call \in {"reset", "generateNewMaze"} /\ playerPos' = StartPos
      ]_vars

\* A directional key has been delivered in the middle of an animation that
\* is still running.
C15_Witness ==
    /\ last.call = "specialKeys"
    /\ autoMoving
    /\ currentMoveIndex > 0
    /\ playerPos # targetPos

\* C16: under every interleaving of key events and timer ticks, autoMoving
\* implies that the animation path is non-empty, that the index is within
\* it, and that its element at the index is the Player position; the
\* animation path is the Player position at prepare time followed by the
\* solution Path computed then (it is built so by prepareAutoMove, with the
\* index at 0, and nothing else changes it while autoMoving stays true).
\* Hence size()-1 does not wrap and movePath[currentMoveIndex] is in range.
C16_AnimationPathInvariant ==
    /\ [](autoMoving =>
             /\ Len(movePath) >= 1
             /\ SizeMinusOne(movePath) = Len(movePath) - 1
             /\ 0 <= currentMoveIndex
             /\ currentMoveIndex < Len(movePath)
             /\ movePath[currentMoveIndex + 1] = playerPos)
    /\ [][/\ (last'.call = "prepareAutoMove" /\ autoMoving') =>
                /\ movePath' = <<playerPos>> \o path'
                /\ currentMoveIndex' = 0
                /\ playerPos' = playerPos
          /\ (autoMoving /\ autoMoving' /\ last'.call # "prepareAutoMove") =>
                movePath' = movePath
         ]_vars

\* The auto-solve key has been pressed a second time in the middle of an
\* animation: a new animation path starts at the cell the first one had
\* reached.
C16_Witness ==
    /\ last.call = "prepareAutoMove"
    /\ last.wasAutoMoving
    /\ autoMoving
    /\ playerPos # StartPos
    /\ Len(movePath) >= 2
    /\ movePath[1] = playerPos

\* C19: under every interleaving of key events and timer ticks, an
\* autoMoveStep that returns true moves the Player to a cell 4-adjacent to
\* the one it occupied just before the step, and that cell is not Wall in
\* the grid the step runs on: the animation never follows a path computed
\* for another grid or another Player position.
C19_StepAdjacentNonWall ==
    [][(last'.call = "autoMoveStep" /\ last'.ret) =>
          /\ Adjacent(playerPos, playerPos')
          /\ cells[playerPos'].type # WALL
          /\ cells'[playerPos'].type = PLAYER
          /\ Walls(cells') = Walls(cells)
      ]_vars

\* A step of an animation that was started away from the start cell (after
\* manual moves or in the middle of an earlier animation) and still runs.
C19_Witness ==
    /\ last.call = "autoMoveStep"
    /\ last.ret
    /\ autoMoving
    /\ currentMoveIndex >= 1
    /\ movePath[1] # StartPos
    /\ playerPos = movePath[currentMoveIndex + 1]
    /\ Adjacent(playerPos, movePath[currentMoveIndex])

\* C18: auto-move always ends: when the timer keeps invoking autoMoveStep
\* (weak fairness on the due tick) an animation that has started is
\* eventually over, whatever keys (show-path, auto-solve again, reset,
\* regenerate, directional keys) are interleaved with the ticks; and when it
\* is ended by anything but reset or regenerate, the Player is at the
\* Target at that moment.
C18_AutoMoveEnds ==
    /\ autoMoving ~> ~autoMoving
    /\ [][(autoMoving /\ ~autoMoving' /\ last'.call \notin {"reset", "generateNewMaze"})
             => (last'.call = "autoMoveStep" /\ playerPos' = targetPos)]_vars

\* An animation that other keys interrupted (the run of uninterrupted steps
\* was broken) has ended with a step onto the Target.
C18_Witness ==
    /\ last.call = "autoMoveStep"
    /\ last.ret
    /\ last.wasAutoMoving
    /\ ~autoMoving
    /\ run = -1
    /\ playerPos = targetPos

----------------------------------------------------------------------------
\* The positions of sequence s, as a set.
Range(s) == {s[i] : i \in 1 .. Len(s)}

\* No position occurs twice in sequence s.
NoRepeat(s) == \A i, j \in 1 .. Len(s) : s[i] = s[j] => i = j

\* The loop of generateMaze has just been left: the stack is empty.
LoopLeft == pc = "gen" /\ genStack = <<>>

\* C13: generateMaze terminates whatever neighbours are drawn: once entered,
\* its loop reaches the empty stack; no position is pushed twice or popped
\* twice, only rooms of the odd-coordinate lattice are pushed, only pushed
\* positions are popped, and when the stack is empty every room has been
\* pushed exactly once and popped exactly once.
C13_GenerateMazeTerminates ==
    /\ (pc = "gen") ~> LoopLeft
    /\ [](pc = "gen" =>
             /\ NoRepeat(pushLog)
             /\ NoRepeat(popLog)
             /\ Range(pushLog) \subseteq Rooms
             /\ Range(popLog) \subseteq Range(pushLog)
             /\ Range(genStack) = Range(pushLog) \ Range(popLog)
             /\ NoRepeat(genStack))
    /\ [](LoopLeft =>
             /\ Range(pushLog) = Rooms
             /\ Range(popLog) = Rooms
             /\ Len(pushLog) = Cardinality(Rooms)
             /\ Len(popLog) = Cardinality(Rooms))

\* The loop has been left after a walk that started downwards and had to
\* back-track through every room.
C13_Witness ==
    /\ LoopLeft
    /\ pushLog[2] = Vector2i(1, 3)
    /\ popLog[Len(popLog)] = StartPos
    /\ Len(popLog) = Cardinality(Rooms)

\* The cells of grid c whose visited flag is set.
Visited(c) == {p \in Pos : c[p].visited}

\* The loop of generateMaze is about to make its first iteration.
LoopEntered == pc = "gen" /\ pushLog = <<StartPos>> /\ popLog = <<>>

\* C17: the two algorithms never see each other's visited flags. Whatever
\* operations came before (searches that left flags set among them), the
\* carving loop of generateMaze is entered with (1,1) the only visited
\* cell, and leaves a connected spanning-tree maze; and a findPathBFS made
\* in any state between calls enters its loop with the Player's cell the
\* only visited cell, so the flags a search leaves are those of the cells
\* it reached itself: none lies more than one step farther from the Player
\* than the Target does.
C17_VisitedFlagsSeparated ==
    /\ LoopEntered => Visited(cells) = {StartPos}
    /\ LoopLeft =>
          /\ Visited(cells) = Rooms
          /\ Cardinality(Carved(cells)) = Cardinality(Rooms) - 1
          /\ GrowRooms(cells, {StartPos}) = Rooms
          /\ Grow(cells, {StartPos}) = Open(cells)
    /\ pc = "idle" =>
          /\ Visited(BFSStart(cells, playerPos).cells) = {playerPos}
          /\ BFSStart(cells, playerPos).queue = <<playerPos>>
    /\ (pc = "idle" /\ last.call = "findPathBFS") =>
          /\ playerPos \in Visited(cells)
          /\ \A p \in Visited(cells) :
                 /\ Distance(cells, playerPos, p) >= 0
                 /\ Distance(cells, playerPos, p)
                        <= Distance(cells, playerPos, targetPos) + 1

\* generateMaze is about to carve on a grid that a search, made with the
\* Player away from the start, had left flagged.
C17_Witness ==
    /\ LoopEntered
    /\ last.call = "generateMaze"
    /\ path # <<>>
    /\ pathFound
    /\ playerPos # StartPos

----------------------------------------------------------------------------
\* C12: findPathBFS discards the previous result before it searches: on a
\* grid in which the Target position cannot be reached from the Player
\* through non-Wall cells it ends with pathFound = false and an empty Path,
\* also when a found, non-empty Path was stored before; no cell kind
\* changes, nor do the Player and Target positions.
C12_FailureClearsResult ==
    [][(/\ last'.call \in {"findPathBFS", "prepareAutoMove"}
        /\ Distance(cells, playerPos, targetPos) = -1) =>
          /\ ~pathFound'
          /\ path' = <<>>
          /\ \A p \in Pos : cells'[p].type = cells[p].type
          /\ playerPos' = playerPos
          /\ targetPos' = targetPos
          /\ autoMoving' = autoMoving
      ]_vars

\* A search has failed on a grid whose Target is walled off, after the
\* Player had moved: the found path stored before is gone.
C12_Witness ==
    /\ last.call = "findPathBFS"
    /\ Distance(cells, playerPos, targetPos) = -1
    /\ playerPos # StartPos
    /\ ~pathFound
    /\ path = <<>>
    /\ Cardinality(Visited(cells)) >= 2

====
